---- MODULE Spec2Model ----
(***************************************************************************)
(* Model of packages/pipeline-core/src/lib.rs: the deterministic image     *)
(* primitives exported over N-API.  Every entry point is a pure function   *)
(* of (data, width, height); one call is one action of the model.  Init    *)
(* draws the arguments, the action applies the entry point and records     *)
(* what it returned, or that it panicked.                                  *)
(*                                                                         *)
(* Buffers are TLA+ sequences (1-based); the code's 0-based index i is     *)
(* At(d, i).  f64 quantities that are rational are carried as exact        *)
(* fractions [num, den]; quantities that need a square root are carried    *)
(* in fixed point (see MagTenths) or by sign (see baseline_metrics).       *)
(* The u32 and i32 sums of the code stay far below 2^31 for every input    *)
(* explored, so they are plain integers here.                              *)
(***************************************************************************)
EXTENDS Integers, Sequences, FiniteSets, TLC

VARIABLES pc, op, width, height, data, res, panicked

vars == <<pc, op, width, height, data, res, panicked>>

(***************************************************************************)
(* Bounds of the explored inputs.                                          *)
(***************************************************************************)
MaxDim == 5
MaxCells == 12
MaxOffLen == 9
HugeDim == 32768

Pixels == {0, 255}

\* Pointer widths of the targets the crate can be built for.
UsizeBits == {32, 64}

\* isize::MAX of the 32-bit targets; on 64-bit targets no size the model
\* can represent exceeds isize::MAX.
ISIZE_MAX_32 == 2147483647

Ok(v) == [panic |-> FALSE, val |-> v]
Panic == [panic |-> TRUE, val |-> <<>>]

At(d, i) == d[i + 1]

\* iter().sum() of seq[i..].
RECURSIVE SeqSum(_, _)
SeqSum(seq, i) == IF i > Len(seq) THEN 0 ELSE seq[i] + SeqSum(seq, i + 1)

Min(a, b) == IF a < b THEN a ELSE b
Max(a, b) == IF a > b THEN a ELSE b

\* &bytes[..n]: panics when n exceeds the length.
Slice(d, n) == IF n > Len(d) THEN Panic ELSE Ok(SubSeq(d, 1, n))

\* vec![0; n] of elements of elemSize bytes: Layout::array fails with
\* "capacity overflow" when n * elemSize exceeds isize::MAX.
CapacityOverflow(n, elemSize, bits) ==
    bits = 32 /\ n > ISIZE_MAX_32 \div elemSize

(***************************************************************************)
(* projection_profile_y / projection_profile_x                             *)
(***************************************************************************)
RECURSIVE RowSum(_, _, _, _)
RowSum(d, offset, w, x) ==
    IF x >= w THEN 0 ELSE At(d, offset + x) + RowSum(d, offset, w, x + 1)

projection_profile_y(d, w, h, bits) ==
    IF CapacityOverflow(h, 4, bits) THEN Panic
    ELSE IF \E y \in 0..(h - 1) : \E x \in 0..(w - 1) : y * w + x >= Len(d)
    THEN Panic
    ELSE Ok([i \in 1..h |-> RowSum(d, (i - 1) * w, w, 0)])

projection_profile_y_js(d, w, h, bits) ==
    IF w = 0 \/ h = 0 \/ Len(d) < w * h THEN Ok(<<>>)
    ELSE LET s == Slice(d, w * h)
         IN  IF s.panic THEN Panic ELSE projection_profile_y(s.val, w, h, bits)

RECURSIVE ColSum(_, _, _, _, _)
ColSum(d, w, h, x, y) ==
    IF y >= h THEN 0 ELSE At(d, y * w + x) + ColSum(d, w, h, x, y + 1)

\* Mutant: the buffer indexed column-major, x * height + y.
projection_profile_x_transposed(d, w, h, bits) ==
    IF CapacityOverflow(w, 4, bits) THEN Panic
    ELSE IF \E y \in 0..(h - 1) : \E x \in 0..(w - 1) : x * h + y >= Len(d)
    THEN Panic
    ELSE Ok([i \in 1..w |-> SeqSum(SubSeq(d, (i - 1) * h + 1, (i - 1) * h + h), 1)])

projection_profile_x(d, w, h, bits) ==
    IF CapacityOverflow(w, 4, bits) THEN Panic
    ELSE IF \E y \in 0..(h - 1) : \E x \in 0..(w - 1) : y * w + x >= Len(d)
    THEN Panic
    ELSE Ok([i \in 1..w |-> ColSum(d, w, h, i - 1, 0)])

projection_profile_x_js(d, w, h, bits) ==
    IF w = 0 \/ h = 0 \/ Len(d) < w * h THEN Ok(<<>>)
    ELSE LET s == Slice(d, w * h)
         IN  IF s.panic THEN Panic ELSE projection_profile_x(s.val, w, h, bits)

(***************************************************************************)
(* sobel_magnitude.  A Vec<u16> built by vec![0u16; n] and later writes is *)
(* the record [len |-> n, at |-> written], read by VecGet: entries never   *)
(* written keep the 0 they were allocated with.                            *)
(***************************************************************************)
ZeroVec(n) == [len |-> n, at |-> <<>>]
VecGet(v, i) == IF i \in DOMAIN v.at THEN v.at[i] ELSE 0

Gx == <<-1, 0, 1, -2, 0, 2, -1, 0, 1>>
Gy == <<1, 2, 1, 0, 0, 0, -1, -2, -1>>

RECURSIVE KernelSum(_, _, _, _, _, _)
KernelSum(d, w, x, y, kern, k) ==
    IF k >= 9 THEN 0
    ELSE LET ky == (k \div 3) - 1
             kx == (k % 3) - 1
         IN  kern[k + 1] * At(d, (y + ky) * w + (x + kx))
             + KernelSum(d, w, x, y, kern, k + 1)

RECURSIVE IsqrtIter(_, _, _)
IsqrtIter(n, lo, hi) ==
    IF lo >= hi THEN lo
    ELSE LET mid == (lo + hi + 1) \div 2
         IN  IF mid * mid <= n THEN IsqrtIter(n, mid, hi)
             ELSE IsqrtIter(n, lo, mid - 1)

\* floor of the f64 square root of a non-negative i32.
Isqrt(n) == IsqrtIter(n, 0, 46340)

\* `f as u16`: truncation toward zero, saturating at u16::MAX.
AsU16(f) == IF f > 65535 THEN 65535 ELSE IF f < 0 THEN 0 ELSE f

\* Mutant: the root rounded to the nearest integer instead of truncated.
SobelPixelRounded(d, w, x, y) ==
    LET sum_x == KernelSum(d, w, x, y, Gx, 0)
        sum_y == KernelSum(d, w, x, y, Gy, 0)
        n == sum_x * sum_x + sum_y * sum_y
        r == Isqrt(n)
    IN  AsU16(IF n - r * r > r THEN r + 1 ELSE r)

SobelPixel(d, w, x, y) ==
    LET sum_x == KernelSum(d, w, x, y, Gx, 0)
        sum_y == KernelSum(d, w, x, y, Gy, 0)
    IN  AsU16(Isqrt(sum_x * sum_x + sum_y * sum_y))

\* The pixels the two nested loops visit: y in 1..height-1, x in 1..width-1
\* (exclusive upper ends).
InteriorRows(h) == 1..(h - 2)
InteriorCols(w) == 1..(w - 2)

\* Mutant: each magnitude stored one entry to the left, out[y * width + x - 1].
sobel_magnitude_shifted(d, w, h, bits) ==
    IF CapacityOverflow(w * h, 2, bits) THEN Panic
    ELSE IF w < 3 \/ h < 3 THEN Ok(ZeroVec(w * h))
    ELSE Ok([len |-> w * h,
             at  |-> [i \in {y * w + x - 1 : y \in InteriorRows(h), x \in InteriorCols(w)}
                        |-> SobelPixel(d, w, (i + 1) % w, (i + 1) \div w)]])

sobel_magnitude(d, w, h, bits) ==
    IF CapacityOverflow(w * h, 2, bits) THEN Panic
    ELSE IF w < 3 \/ h < 3 THEN Ok(ZeroVec(w * h))
    ELSE IF \E y \in InteriorRows(h) : \E x \in InteriorCols(w) :
               (y + 1) * w + (x + 1) >= Len(d)
    THEN Panic
    ELSE Ok([len |-> w * h,
             at  |-> [i \in {y * w + x : y \in InteriorRows(h), x \in InteriorCols(w)}
                        |-> SobelPixel(d, w, i % w, i \div w)]])

sobel_magnitude_js(d, w, h, bits) ==
    IF w = 0 \/ h = 0 \/ Len(d) < w * h
    THEN \* width.saturating_mul(height): the product fits usize here.
         IF CapacityOverflow(w * h, 2, bits) THEN Panic ELSE Ok(ZeroVec(w * h))
    ELSE LET s == Slice(d, w * h)
         IN  IF s.panic THEN Panic ELSE sobel_magnitude(s.val, w, h, bits)

(***************************************************************************)
(* gradient_histogram and estimate_skew_angle_js.                          *)
(*                                                                         *)
(* A histogram weight is the f64 sum of square roots; the model carries it *)
(* in tenths, each magnitude truncated to a tenth (MagTenths).  The bucket *)
(* of a gradient is exact: round(atan2(sy, sx) in degrees + 90) clamped to *)
(* [0, 180] is the number of half-degree boundaries k - 89.5, k in 0..179, *)
(* at or below the angle, decided by comparing sy / sx with the tangent of *)
(* the boundary to eight decimals (TanHi * 10^4 + TanLo, floored).         *)
(***************************************************************************)
TanHi ==
    <<87, 261, 436, 611, 787, 962, 1139, 1316, 1494, 1673, 1853, 2034, 2216,
      2400, 2586, 2773, 2962, 3152, 3345, 3541, 3738, 3939, 4142, 4348, 4557,
      4769, 4985, 5205, 5429, 5657, 5890, 6128, 6370, 6618, 6872, 7132, 7399,
      7673, 7954, 8243, 8540, 8847, 9163, 9489, 9826, 10176, 10537, 10913,
      11302, 11708, 12130, 12571, 13032, 13514, 14019, 14550, 15108, 15696,
      16318, 16976, 17674, 18417, 19209, 20056, 20965, 21942, 22998, 24142,
      25386, 26746, 28239, 29886, 31715, 33759, 36058, 38667, 41652, 45107,
      49151, 53955, 59757, 66911, 75957, 87768, 103853, 127062, 163498,
      229037, 381884, 1145886>>

TanLo ==
    <<2686, 8592, 6094, 6262, 170, 8904, 3560, 5249, 5100, 4260, 3904, 5229,
      9466, 7875, 1758, 2454, 1349, 9878, 9531, 1857, 8467, 1047, 1356, 1237,
      2625, 7553, 8160, 6705, 5569, 7277, 4501, 78, 7026, 8556, 8095, 9306,
      6107, 2698, 3591, 3638, 8068, 2526, 3117, 6456, 9726, 739, 8012, 850,
      9438, 4956, 9700, 7229, 2537, 2243, 4829, 902, 3519, 8557, 5168, 6311,
      9401, 7088, 8212, 8970, 4359, 9973, 4254, 1356, 4789, 2149, 1288, 8496,
      9480, 4342, 8350, 1309, 9977, 850, 5703, 1717, 6436, 5623, 5411, 8735,
      9708, 473, 5547, 6554, 5929, 5012>>

\* sy / sx > tan((j - 0.5) degrees), for sx > 0 and |sx|, |sy| <= 1020.
SlopeAbove(sx, sy, j) ==
    LET a == sy * 10000 - sx * TanHi[j]
    IN  IF a <= 0 THEN FALSE
        ELSE IF a >= 1021 THEN TRUE
        ELSE a * 10000 > sx * TanLo[j]

\* (angle + 90.0).round().clamp(0.0, 180.0) as usize, angle = atan2(sy, sx).
Bucket(sx, sy) ==
    IF sx <= 0 THEN (IF sy >= 0 THEN 180 ELSE 0)
    ELSE Cardinality({j \in 1..90 : SlopeAbove(sx, sy, j)})
         + Cardinality({j \in 1..90 : ~SlopeAbove(sx, -sy, j)})

\* sqrt(n) in tenths.
MagTenths(n) == Isqrt(100 * n)

\* The interior pixels whose gradient passes the noise floor
\* (magnitude >= 10.0), each with the bucket and the weight it adds.
GradientEntries(d, w, h) ==
    {<<c[1], Bucket(c[2], c[3]), MagTenths(c[2] * c[2] + c[3] * c[3])>> :
        c \in {t \in {<<y * w + x,
                        KernelSum(d, w, x, y, Gx, 0),
                        KernelSum(d, w, x, y, Gy, 0)>> :
                          y \in InteriorRows(h), x \in InteriorCols(w)} :
                  t[2] * t[2] + t[3] * t[3] >= 100}}

RECURSIVE SumWeights(_)
SumWeights(entries) ==
    IF entries = {} THEN 0
    ELSE LET e == CHOOSE e \in entries : TRUE
         IN  e[3] + SumWeights(entries \ {e})

gradient_histogram(d, w, h) ==
    IF w < 3 \/ h < 3 THEN [b \in 0..180 |-> 0]
    ELSE LET entries == GradientEntries(d, w, h)
         IN  [b \in 0..180 |-> SumWeights({e \in entries : e[2] = b})]

\* One iteration of `for (idx, val) in histogram.iter().enumerate()`:
\* if *val > best_val { best_val = *val; best_bucket = idx; }
\* Mutant: `>=` keeps the last maximum instead of the first.
ScanStepLastMaximum(hist, idx, best) ==
    IF hist[idx] >= best.best_val
    THEN [best_bucket |-> idx, best_val |-> hist[idx]]
    ELSE best

ScanStep(hist, idx, best) ==
    IF hist[idx] > best.best_val
    THEN [best_bucket |-> idx, best_val |-> hist[idx]]
    ELSE best

\* The iterations lo..hi in index order, applied to the state `best`.
RECURSIVE ScanBest(_, _, _, _)
ScanBest(hist, lo, hi, best) ==
    IF lo = hi THEN ScanStep(hist, lo, best)
    ELSE LET mid == (lo + hi) \div 2
             left == ScanBest(hist, lo, mid, best)
         IN  \* best_val never drops below its initial 0; the test only makes
             \* the left half be evaluated before the right half starts.
             IF left.best_val >= 0 THEN ScanBest(hist, mid + 1, hi, left) ELSE left

BestBucket(hist) == ScanBest(hist, 0, 180, [best_bucket |-> 90, best_val |-> 0])

RECURSIVE WindowSum(_, _, _, _)
WindowSum(hist, idx, end, weighted) ==
    IF idx > end THEN 0
    ELSE (IF weighted THEN (idx - 90) * hist[idx] ELSE hist[idx])
         + WindowSum(hist, idx + 1, end, weighted)

SkewWindow == 3

\* angle: num / den of the window, or 0 when den is not positive.
SkewAngle(hist, best_bucket) ==
    LET start == Max(best_bucket - SkewWindow, 0)
        end == Min(best_bucket + SkewWindow, 180)
        num == WindowSum(hist, start, end, TRUE)
        den == WindowSum(hist, start, end, FALSE)
    IN  IF den > 0 THEN [num |-> num, den |-> den] ELSE [num |-> 0, den |-> 1]

\* (best_val / ((width * height) as f64 * 4.0)).min(1.0), best_val in tenths.
SkewConfidence(best_val, w, h) ==
    IF best_val >= 40 * w * h THEN [num |-> 1, den |-> 1]
    ELSE [num |-> best_val, den |-> 40 * w * h]

\* The returned DeskewEstimate {angle, confidence}, with the histogram and
\* the scan's best bucket and weight kept beside it (the early return builds
\* no histogram: <<>>, and the scan's initial 90 and 0).
estimate_skew_angle_js(d, w, h) ==
    IF w = 0 \/ h = 0 \/ Len(d) < w * h
    THEN Ok([angle |-> [num |-> 0, den |-> 1], confidence |-> [num |-> 0, den |-> 1],
             histogram |-> <<>>, best_bucket |-> 90, best_val |-> 0])
    ELSE LET s == Slice(d, w * h)
         IN  IF s.panic THEN Panic
             ELSE LET hist == gradient_histogram(s.val, w, h)
                      best == BestBucket(hist)
                  IN  Ok([angle |-> SkewAngle(hist, best.best_bucket),
                          confidence |-> SkewConfidence(best.best_val, w, h),
                          histogram |-> hist,
                          best_bucket |-> best.best_bucket,
                          best_val |-> best.best_val])

(***************************************************************************)
(* Statistics shared by baseline_metrics_js, column_metrics_js and         *)
(* detect_layout_elements_js.  For values v_1..v_n with sum s and sum of   *)
(* squares q: mean = s / n and std = sqrt(n*q - s*s) / n, so a comparison  *)
(* with mean + k * std is decided exactly on integers.                     *)
(***************************************************************************)
Zero == [num |-> 0, den |-> 1]

Squares(seq) == [i \in 1..Len(seq) |-> seq[i] * seq[i]]

\* n * n * variance.
Dispersion(seq) ==
    Len(seq) * SeqSum(Squares(seq), 1) - SeqSum(seq, 1) * SeqSum(seq, 1)

\* v > mean + (k10 / 10) * std.
AboveThreshold(v, seq, k10) ==
    LET a == Len(seq) * v - SeqSum(seq, 1)
    IN  a > 0 /\ 100 * a * a > k10 * k10 * Dispersion(seq)

RECURSIVE Insert(_, _)
Insert(sorted, v) ==
    IF sorted = <<>> THEN <<v>>
    ELSE IF v <= Head(sorted) THEN <<v>> \o sorted
    ELSE <<Head(sorted)>> \o Insert(Tail(sorted), v)

\* sort_by(partial_cmp) on finite values.
RECURSIVE Sort(_)
Sort(seq) == IF seq = <<>> THEN <<>> ELSE Insert(Sort(Tail(seq)), Head(seq))

\* Twice the median of a sorted, non-empty sequence: the two central
\* elements added, or the central one doubled.
Median2(sorted) ==
    IF Len(sorted) % 2 = 0
    THEN sorted[Len(sorted) \div 2] + sorted[Len(sorted) \div 2 + 1]
    ELSE 2 * sorted[Len(sorted) \div 2 + 1]

Abs(a) == IF a < 0 THEN -a ELSE a

(***************************************************************************)
(* baseline_metrics_js.  spacing_norm, spacing_mad_norm, offset_norm and   *)
(* peaks_y are exact fractions of the peak rows (the rounding of the f64   *)
(* division and remainder is not modelled); line_consistency,              *)
(* peak_sharpness and confidence involve std and are carried by sign: 0    *)
(* when the code yields 0.0, 1 when it yields a positive number.           *)
(***************************************************************************)
InkRowSums(d, w, h) == [i \in 1..h |-> 255 * w - RowSum(d, (i - 1) * w, w, 0)]

\* if row_sums[y] > threshold && row_sums[y] > row_sums[y - 1]
\*    && row_sums[y] > row_sums[y + 1]          (y is 0-based)
\* Mutant: `>=` against both neighbours, so adjacent rows of a plateau are
\* both peaks.
IsPeakPlateau(row_sums, y) ==
    /\ AboveThreshold(row_sums[y + 1], row_sums, 6)
    /\ row_sums[y + 1] >= row_sums[y]
    /\ row_sums[y + 1] >= row_sums[y + 2]

\* Mutant: `>=` against the next row, so a plateau counts as a peak.
IsPeakNonStrict(row_sums, y) ==
    /\ AboveThreshold(row_sums[y + 1], row_sums, 6)
    /\ row_sums[y + 1] > row_sums[y]
    /\ row_sums[y + 1] >= row_sums[y + 2]

IsPeak(row_sums, y) ==
    /\ AboveThreshold(row_sums[y + 1], row_sums, 6)
    /\ row_sums[y + 1] > row_sums[y]
    /\ row_sums[y + 1] > row_sums[y + 2]

\* for y in 1..row_sums.len().saturating_sub(1): the peaks, in row order.
BaselinePeaks(row_sums) ==
    SelectSeq([i \in 1..(Len(row_sums) - 2) |-> i], LAMBDA y : IsPeak(row_sums, y))

PeakDeltas(peaks) == [i \in 1..(Len(peaks) - 1) |-> peaks[i + 1] - peaks[i]]

\* Twice the median of the deltas, in units of 1 / (height - 1).
SpacingNorm2(peaks) == Median2(Sort(PeakDeltas(peaks)))

\* Four times the median absolute deviation, in units of 1 / (height - 1).
SpacingMad4(peaks) ==
    LET deltas == Sort(PeakDeltas(peaks))
        sp2 == Median2(deltas)
    IN  Median2(Sort([i \in 1..Len(deltas) |-> Abs(2 * deltas[i] - sp2)]))

\* Four times the median of (y % max(height - 1, 1)) / (height - 1) taken
\* modulo spacing_norm, in units of 1 / (height - 1).
OffsetNorm4(peaks, h) ==
    LET sp2 == SpacingNorm2(peaks)
    IN  Median2(Sort([i \in 1..Len(peaks) |->
                        (2 * (peaks[i] % Max(h - 1, 1))) % sp2]))

baseline_metrics(d, w, h) ==
    LET row_sums == InkRowSums(d, w, h)
        disp == Dispersion(row_sums)
        total == SeqSum(row_sums, 1)
        peaks == BaselinePeaks(row_sums)
        spaced == Len(peaks) > 1 /\ h > 1
        spacing_norm == IF spaced THEN [num |-> SpacingNorm2(peaks), den |-> 2 * (h - 1)]
                        ELSE Zero
        spacing_mad_norm == IF spaced THEN [num |-> SpacingMad4(peaks), den |-> 4 * (h - 1)]
                            ELSE Zero
        offset_norm == IF spaced /\ spacing_norm.num > 0
                       THEN [num |-> OffsetNorm4(peaks, h), den |-> 4 * (h - 1)]
                       ELSE Zero
        \* mean > 0 and std / (mean * 2) < 1
        line_consistency == IF total > 0 /\ disp < 4 * total * total THEN 1 ELSE 0
        \* a peak has std > 0 and a positive sharpness
        peak_sharpness == IF Len(peaks) > 0 /\ disp > 0 THEN 1 ELSE 0
        spacing_score == IF spacing_norm.num > 0
                            /\ spacing_mad_norm.num * spacing_norm.den
                                 < spacing_norm.num * spacing_mad_norm.den
                         THEN 1 ELSE 0
        peak_count_score == IF Len(peaks) > 2 THEN 1 ELSE 0
    IN  [line_consistency |-> line_consistency,
         text_line_count |-> Len(peaks),
         spacing_norm |-> spacing_norm,
         spacing_mad_norm |-> spacing_mad_norm,
         offset_norm |-> offset_norm,
         angle_deg |-> 0,
         confidence |-> Max(spacing_score, Max(peak_sharpness, peak_count_score)),
         peak_sharpness |-> peak_sharpness,
         peaks_y |-> IF h > 1 THEN [i \in 1..Len(peaks) |-> [num |-> peaks[i], den |-> h - 1]]
                     ELSE <<>>]

BaselineDefault ==
    [line_consistency |-> 0, text_line_count |-> 0, spacing_norm |-> Zero,
     spacing_mad_norm |-> Zero, offset_norm |-> Zero, angle_deg |-> 0,
     confidence |-> 0, peak_sharpness |-> 0, peaks_y |-> <<>>]

baseline_metrics_js(d, w, h) ==
    IF w = 0 \/ h = 0 \/ Len(d) < w * h THEN Ok(BaselineDefault)
    ELSE IF \E y \in 0..(h - 1) : \E x \in 0..(w - 1) : y * w + x >= Len(d)
    THEN Panic
    ELSE Ok(baseline_metrics(d, w, h))

(***************************************************************************)
(* column_metrics_js.  column_separation is std; the model carries its     *)
(* square, the variance, as an exact fraction.                             *)
(***************************************************************************)
InkColSums(d, w, h) == [i \in 1..w |-> 255 * h - ColSum(d, w, h, i - 1, 0)]

\* for val in col_sums { if val > threshold { if !in_band {..} } else {..} }
RECURSIVE CountBands(_, _, _)
CountBands(col_sums, i, in_band) ==
    IF i > Len(col_sums) THEN 0
    ELSE IF AboveThreshold(col_sums[i], col_sums, 7)
    THEN (IF in_band THEN 0 ELSE 1) + CountBands(col_sums, i + 1, TRUE)
    ELSE CountBands(col_sums, i + 1, FALSE)

\* Mutant: the band count reported without .max(1).
column_metrics_unfloored(d, w, h) ==
    LET col_sums == InkColSums(d, w, h)
    IN  [column_count |-> CountBands(col_sums, 1, FALSE),
         column_separation_sq |-> [num |-> Dispersion(col_sums), den |-> w * w]]

column_metrics(d, w, h) ==
    LET col_sums == InkColSums(d, w, h)
    IN  [column_count |-> Max(CountBands(col_sums, 1, FALSE), 1),
         column_separation_sq |-> [num |-> Dispersion(col_sums), den |-> w * w]]

column_metrics_js(d, w, h) ==
    IF w = 0 \/ h = 0 \/ Len(d) < w * h
    THEN Ok([column_count |-> 0, column_separation_sq |-> Zero])
    ELSE IF \E y \in 0..(h - 1) : \E x \in 0..(w - 1) : y * w + x >= Len(d)
    THEN Panic
    ELSE Ok(column_metrics(d, w, h))

(***************************************************************************)
(* detect_layout_elements_js.  Coordinates and confidences are carried in  *)
(* hundredths (bbox 250 is pixel 2.5, confidence 55 is 0.55), which makes  *)
(* the fractional offsets of make_box integers.                            *)
(***************************************************************************)
Clamp(v, lo, hi) == IF v < lo THEN lo ELSE IF v > hi THEN hi ELSE v

\* (p as f64) < (mean - std * 0.5).clamp(10.0, 245.0), mean and std of px.
BelowLayoutThreshold(p, px) ==
    LET a == SeqSum(px, 1) - Len(px) * p
        belowRaw == a > 0 /\ Dispersion(px) < 4 * a * a
    IN  p < 10 \/ (p < 245 /\ belowRaw)

\* The content box (x0, y0, x1, y1): the bounding box of the pixels below
\* the threshold, or the whole image when there is none.
ContentBox(px, w, h) ==
    LET dark == {i \in 0..(w * h - 1) : BelowLayoutThreshold(At(px, i), px)}
        xs == {i % w : i \in dark}
        ys == {i \div w : i \in dark}
    IN  IF dark # {}
        THEN <<CHOOSE x \in xs : \A o \in xs : x <= o,
               CHOOSE y \in ys : \A o \in ys : y <= o,
               CHOOSE x \in xs : \A o \in xs : x >= o,
               CHOOSE y \in ys : \A o \in ys : y >= o>>
        ELSE <<0, 0, w - 1, h - 1>>

\* make_box(fx0, fy0, fx1, fy1), the fractions given in hundredths.
MakeBox(box, w, h, f) ==
    LET content_width == Max(box[3] - box[1], 1)
        content_height == Max(box[4] - box[2], 1)
    IN  <<Clamp(100 * box[1] + content_width * f[1], 0, 100 * (w - 1)),
          Clamp(100 * box[2] + content_height * f[2], 0, 100 * (h - 1)),
          Clamp(100 * box[1] + content_width * f[3], 0, 100 * (w - 1)),
          Clamp(100 * box[2] + content_height * f[4], 0, 100 * (h - 1))>>

Element(id, type, bbox, confidence) ==
    [id |-> id, element_type |-> type, bbox |-> bbox, confidence |-> confidence]

\* Mutant: the page box spans width x height instead of ending at the last
\* pixel.
PageBoundsElementFullSize(w, h) ==
    Element("page-bounds", "page_bounds", <<0, 0, 100 * w, 100 * h>>, 60)

PageBoundsElement(w, h) ==
    Element("page-bounds", "page_bounds", <<0, 0, 100 * (w - 1), 100 * (h - 1)>>, 60)

\* Mutant: the text block given the page's confidence.
TextBlockElementAsPage(box) ==
    Element("text-block", "text_block",
            <<100 * box[1], 100 * box[2], 100 * box[3], 100 * box[4]>>, 60)

TextBlockElement(box) ==
    Element("text-block", "text_block",
            <<100 * box[1], 100 * box[2], 100 * box[3], 100 * box[4]>>, 55)

LayoutCatalog(box, w, h) ==
    <<PageBoundsElement(w, h),
      TextBlockElement(box),
      Element("title", "title", MakeBox(box, w, h, <<12, 2, 88, 14>>), 28),
      Element("running-head", "running_head", MakeBox(box, w, h, <<10, 0, 90, 8>>), 25),
      Element("folio", "folio", MakeBox(box, w, h, <<42, 90, 58, 98>>), 22),
      Element("ornament", "ornament", MakeBox(box, w, h, <<42, 18, 58, 24>>), 20),
      Element("drop-cap", "drop_cap", MakeBox(box, w, h, <<2, 18, 10, 32>>), 18),
      Element("footnote", "footnote", MakeBox(box, w, h, <<5, 86, 95, 98>>), 20),
      Element("marginalia", "marginalia", MakeBox(box, w, h, <<0, 25, 8, 75>>), 18)>>

detect_layout_elements_js(d, w, h) ==
    IF w = 0 \/ h = 0 \/ Len(d) < w * h THEN Ok(<<>>)
    ELSE LET s == Slice(d, w * h)
         IN  IF s.panic THEN Panic
             ELSE Ok(LayoutCatalog(ContentBox(s.val, w, h), w, h))

(***************************************************************************)
(* dhash_9x8.  The u64 hash is the set of its 1 bits; format!("{:016x}")   *)
(* is the sequence of its sixteen hexadecimal digits, most significant     *)
(* first.                                                                  *)
(***************************************************************************)
TileW == 9
TileH == 8

dhash_9x8(d) ==
    IF Len(d) # TileW * TileH THEN {}
    ELSE {y * 8 + x : <<y, x>> \in
            {c \in (0..7) \X (0..7) :
                At(d, c[1] * 9 + c[2]) < At(d, c[1] * 9 + c[2] + 1)}}

HexDigits == <<"0", "1", "2", "3", "4", "5", "6", "7",
               "8", "9", "a", "b", "c", "d", "e", "f">>

Nibble(hash, lo) ==
    (IF lo \in hash THEN 1 ELSE 0) + (IF lo + 1 \in hash THEN 2 ELSE 0)
    + (IF lo + 2 \in hash THEN 4 ELSE 0) + (IF lo + 3 \in hash THEN 8 ELSE 0)

Hex16(hash) == [j \in 1..16 |-> HexDigits[Nibble(hash, 4 * (16 - j)) + 1]]

\* Mutant: the whole buffer handed to dhash_9x8 instead of its first 72
\* bytes.
dhash_9x8_js_unsliced(d) ==
    IF Len(d) < TileW * TileH THEN Ok(<<"0">>)
    ELSE Ok(Hex16(dhash_9x8(d)))

dhash_9x8_js(d) ==
    IF Len(d) < TileW * TileH THEN Ok(<<"0">>)
    ELSE LET s == Slice(d, TileW * TileH)
         IN  IF s.panic THEN Panic ELSE Ok(Hex16(dhash_9x8(s.val)))

(***************************************************************************)
(* Inputs.                                                                 *)
(***************************************************************************)
Dims == (0..MaxDim) \cup {HugeDim}

\* Buffer lengths tried with a geometry: exactly width * height (up to
\* MaxCells) and, up to MaxOffLen, empty, one byte short and one byte long.
BufLens(w, h) ==
    {n \in {w * h} : n <= MaxCells}
    \cup {n \in {0, w * h - 1, w * h + 1} : 0 <= n /\ n <= MaxOffLen}

Buffers(n) == [1..n -> Pixels]

\* 9x8 tiles: pixel (x, y) is (a*x + b*y + c) mod 256, cut or padded to the
\* lengths around 72.
TileLens == {71, 72, 73}
TileSlopes == {0, 16, 240}
TileSteps == {0, 31}
TileBases == {0, 7}

Tile(n, a, b, c) == [i \in 1..n |-> (a * ((i - 1) % 9) + b * ((i - 1) \div 9) + c) % 256]

Tiles == {Tile(n, a, b, c) : n \in TileLens, a \in TileSlopes, b \in TileSteps, c \in TileBases}

Init ==
    /\ pc = "call"
    /\ op = "none"
    /\ \/ /\ width \in Dims
          /\ height \in Dims
          /\ \E n \in BufLens(width, height) : data \in Buffers(n)
       \/ /\ width = 0
          /\ height = 0
          /\ data \in Tiles
    /\ res = <<>>
    /\ panicked = FALSE

Return(name, r) ==
    /\ pc' = "done"
    /\ op' = name
    /\ res' = r.val
    /\ panicked' = r.panic
    /\ UNCHANGED <<width, height, data>>

ProjectionProfileY ==
    /\ pc = "call"
    /\ \E bits \in UsizeBits :
          Return("projectionProfileY", projection_profile_y_js(data, width, height, bits))

ProjectionProfileX ==
    /\ pc = "call"
    /\ \E bits \in UsizeBits :
          Return("projectionProfileX", projection_profile_x_js(data, width, height, bits))

SobelMagnitude ==
    /\ pc = "call"
    /\ \E bits \in UsizeBits :
          Return("sobelMagnitude", sobel_magnitude_js(data, width, height, bits))

EstimateSkewAngle ==
    /\ pc = "call"
    /\ Return("estimateSkewAngle", estimate_skew_angle_js(data, width, height))

BaselineMetrics ==
    /\ pc = "call"
    /\ Return("baselineMetrics", baseline_metrics_js(data, width, height))

ColumnMetrics ==
    /\ pc = "call"
    /\ Return("columnMetrics", column_metrics_js(data, width, height))

DetectLayoutElements ==
    /\ pc = "call"
    /\ Return("detectLayoutElements", detect_layout_elements_js(data, width, height))

Dhash9x8 ==
    /\ pc = "call"
    /\ Return("dhash9x8", dhash_9x8_js(data))

Next ==
    \/ ProjectionProfileY
    \/ ProjectionProfileX
    \/ SobelMagnitude
    \/ EstimateSkewAngle
    \/ BaselineMetrics
    \/ ColumnMetrics
    \/ DetectLayoutElements
    \/ Dhash9x8

Spec == Init /\ [][Next]_vars

(***************************************************************************)
(* Properties.                                                             *)
(***************************************************************************)
Done(name) == pc = "done" /\ op = name

\* The uniform precondition of the width/height-taking entry points.
ValidInput == width > 0 /\ height > 0 /\ Len(data) >= width * height

ImageOps ==
    {"projectionProfileY", "projectionProfileX", "sobelMagnitude", "estimateSkewAngle",
     "baselineMetrics", "columnMetrics", "detectLayoutElements"}

\* Pixel (x, y) of the input image and the ink (255 - pixel) of a row.
Px(x, y) == data[y * width + x + 1]
RowPixels(y) == SubSeq(data, y * width + 1, y * width + width)
ColPixels(x) == [k \in 1..height |-> data[(k - 1) * width + x + 1]]
Ink(y) == 255 * width - SeqSum(RowPixels(y), 1)

IsNeutralDefault ==
    CASE op \in {"projectionProfileY", "projectionProfileX", "detectLayoutElements"} ->
            res = <<>>
      [] op = "sobelMagnitude" -> res = [len |-> width * height, at |-> <<>>]
      [] op = "estimateSkewAngle" -> res.angle = Zero /\ res.confidence = Zero
      [] op = "baselineMetrics" -> res = BaselineDefault
      [] op = "columnMetrics" -> res.column_count = 0 /\ res.column_separation_sq = Zero
      [] OTHER -> FALSE

\* C1: every width/height-taking entry point, called with width = 0, or
\* height = 0, or a buffer shorter than width * height, returns its neutral
\* zero/empty default and never panics.
C1_InvalidInputNeverFails ==
    (pc = "done" /\ op \in ImageOps /\ ~ValidInput) => (~panicked /\ IsNeutralDefault)

\* C2 (as stated): detectLayoutElements returns exactly 9 elements for every
\* buffer, width and height, one of them page-bounds with bbox
\* [0, 0, width - 1, height - 1].
HasPageBounds ==
    \E i \in 1..Len(res) :
        /\ res[i].id = "page-bounds"
        /\ res[i].bbox = <<0, 0, 100 * (width - 1), 100 * (height - 1)>>

C2_AlwaysNineElements ==
    Done("detectLayoutElements") => (~panicked /\ Len(res) = 9 /\ HasPageBounds)

\* C2 (amended): on valid input detectLayoutElements returns exactly 9
\* elements, one of them page-bounds with bbox [0, 0, width - 1, height - 1];
\* on invalid input it returns the empty sequence.
C2_NineElementsOnValidInput ==
    Done("detectLayoutElements") =>
        /\ ~panicked
        /\ IF ValidInput THEN Len(res) = 9 /\ HasPageBounds ELSE res = <<>>

C2_Witness ==
    /\ Done("detectLayoutElements")
    /\ ValidInput
    /\ width > 1
    /\ height > 1
    /\ Len(res) = 9
    /\ res[2].bbox # res[1].bbox

\* C3 (as stated): columnMetrics returns columnCount >= 1 on every call.
C3_ColumnCountAlwaysPositive ==
    Done("columnMetrics") => (~panicked /\ res.column_count >= 1)

\* C3 (amended): columnMetrics returns columnCount >= 1 on every call with
\* valid input, a blank image included; on invalid input it returns
\* columnCount = 0.
C3_ColumnCountPositiveOnValidInput ==
    Done("columnMetrics") =>
        /\ ~panicked
        /\ IF ValidInput THEN res.column_count >= 1 ELSE res.column_count = 0

\* A blank (constant) valid image: no column exceeds the threshold.
C3_Witness ==
    /\ Done("columnMetrics")
    /\ ValidInput
    /\ width > 1
    /\ \A i \in 1..(width * height) : data[i] = data[1]
    /\ res.column_count = 1

\* Bit b of the dHash of the first 72 bytes: left < right at row b / 8,
\* column pair b % 8.
TileBit(b) == data[(b \div 8) * 9 + (b % 8) + 1] < data[(b \div 8) * 9 + (b % 8) + 2]

HexValue(ch) == CHOOSE v \in 0..15 : HexDigits[v + 1] = ch

NibbleOfTile(lo) ==
    (IF TileBit(lo) THEN 1 ELSE 0) + (IF TileBit(lo + 1) THEN 2 ELSE 0)
    + (IF TileBit(lo + 2) THEN 4 ELSE 0) + (IF TileBit(lo + 3) THEN 8 ELSE 0)

\* C4 (as stated): perceptualHash yields hash 0 for any input whose length is
\* not exactly 72 bytes, shorter or longer, and the result is a 16-hex-digit
\* string.
C4_ZeroUnlessExactly72 ==
    Done("dhash9x8") =>
        /\ ~panicked
        /\ Len(res) = 16
        /\ Len(data) # 72 => \A j \in 1..16 : res[j] = "0"

\* C4 (amended): perceptualHash returns the one-character string "0" for any
\* input shorter than 72 bytes; for an input of 72 bytes or more it returns
\* the 16-hex-digit dHash of the first 72 bytes, so a longer input can
\* produce a nonzero hash.
C4_HashOfFirst72Bytes ==
    Done("dhash9x8") =>
        /\ ~panicked
        /\ IF Len(data) < 72 THEN res = <<"0">>
           ELSE /\ Len(res) = 16
                /\ \A j \in 1..16 : HexValue(res[j]) = NibbleOfTile(4 * (16 - j))

\* A 73-byte input with a nonzero hash.
C4_Witness ==
    /\ Done("dhash9x8")
    /\ Len(data) = 73
    /\ Len(res) = 16
    /\ \E j \in 1..16 : res[j] # "0"

IsBorder(i) ==
    \/ i % width = 0
    \/ i % width = width - 1
    \/ i \div width = 0
    \/ i \div width = height - 1

\* C5: whenever sobelMagnitude returns, its output has length
\* width * height; with width >= 3 and height >= 3 every entry of the first
\* and last row and column is 0; with width < 3 or height < 3 every entry
\* is 0.  (Entries outside DOMAIN res.at are 0 by construction of the vector.)
C5_SobelShapeAndBorders ==
    (Done("sobelMagnitude") /\ ~panicked) =>
        /\ res.len = width * height
        /\ \A i \in DOMAIN res.at :
              /\ 0 <= i /\ i < res.len
              /\ (res.at[i] # 0) => (width >= 3 /\ height >= 3 /\ ~IsBorder(i))

\* A valid image of at least 3x3 with a nonzero interior magnitude.
C5_Witness ==
    /\ Done("sobelMagnitude")
    /\ ValidInput
    /\ width >= 3
    /\ height >= 3
    /\ \E i \in DOMAIN res.at : res.at[i] # 0

\* C6: on valid input rowProjection has length height and entry y is the
\* sum of the width bytes of row y; colProjection has length width and entry
\* x is the sum of the height bytes of column x; for a buffer filled with a
\* constant v the entries are v * width and v * height.
C6_ProjectionSums ==
    /\ (Done("projectionProfileY") /\ ValidInput) =>
          /\ ~panicked
          /\ Len(res) = height
          /\ \A y \in 0..(height - 1) : res[y + 1] = SeqSum(RowPixels(y), 1)
          /\ (\A i \in 1..Len(data) : data[i] = data[1]) =>
                \A y \in 0..(height - 1) : res[y + 1] = data[1] * width
    /\ (Done("projectionProfileX") /\ ValidInput) =>
          /\ ~panicked
          /\ Len(res) = width
          /\ \A x \in 0..(width - 1) : res[x + 1] = SeqSum(ColPixels(x), 1)
          /\ (\A i \in 1..Len(data) : data[i] = data[1]) =>
                \A x \in 0..(width - 1) : res[x + 1] = data[1] * height

\* A valid image that is not constant and not square, so that rows and
\* columns differ.
C6_Witness ==
    /\ Done("projectionProfileX")
    /\ ValidInput
    /\ width > 1
    /\ height > width
    /\ \E i \in 1..Len(res) : res[i] # res[1]

\* Row y's ink exceeds mean + 0.6 * std of the row inks:
\* 5 * (height * ink - total) > 3 * sqrt(height * squares - total^2).
TotalInk == SeqSum([k \in 1..height |-> Ink(k - 1)], 1)
TotalInkSq == SeqSum([k \in 1..height |-> Ink(k - 1) * Ink(k - 1)], 1)

ExceedsThreshold(y) ==
    /\ height * Ink(y) > TotalInk
    /\ 25 * (height * Ink(y) - TotalInk) * (height * Ink(y) - TotalInk)
         > 9 * (height * TotalInkSq - TotalInk * TotalInk)

PeakRows ==
    {y \in 1..(height - 2) :
        ExceedsThreshold(y) /\ Ink(y) > Ink(y - 1) /\ Ink(y) > Ink(y + 1)}

\* C7: on valid input textLineCount is the number of rows y, 0 < y <
\* height - 1, whose ink exceeds mean + 0.6 * std and strictly exceeds the
\* ink of rows y - 1 and y + 1; when no row exceeds the threshold,
\* textLineCount, spacingNorm, spacingMadNorm and offsetNorm are 0; a spacing
\* value is nonzero only with at least 2 peaks and height > 1.
C7_TextLineCountIsPeakCount ==
    (Done("baselineMetrics") /\ ValidInput) =>
        /\ ~panicked
        /\ res.text_line_count = Cardinality(PeakRows)
        /\ (\A y \in 0..(height - 1) : ~ExceedsThreshold(y)) =>
              /\ res.text_line_count = 0
              /\ res.spacing_norm.num = 0
              /\ res.spacing_mad_norm.num = 0
              /\ res.offset_norm.num = 0
        /\ (res.spacing_norm.num # 0 \/ res.spacing_mad_norm.num # 0
              \/ res.offset_norm.num # 0) =>
              (res.text_line_count >= 2 /\ height > 1)

\* Two text lines with a positive spacing.
C7_Witness ==
    /\ Done("baselineMetrics")
    /\ ValidInput
    /\ res.text_line_count >= 2
    /\ res.spacing_norm.num > 0
    /\ res.text_line_count = Cardinality(PeakRows)

\* The 3x3 Sobel sums at pixel (x, y), written out from the two kernels.
SobelGx(x, y) ==
    (Px(x + 1, y - 1) + 2 * Px(x + 1, y) + Px(x + 1, y + 1))
    - (Px(x - 1, y - 1) + 2 * Px(x - 1, y) + Px(x - 1, y + 1))

SobelGy(x, y) ==
    (Px(x - 1, y - 1) + 2 * Px(x, y - 1) + Px(x + 1, y - 1))
    - (Px(x - 1, y + 1) + 2 * Px(x, y + 1) + Px(x + 1, y + 1))

SqNorm(x, y) == SobelGx(x, y) * SobelGx(x, y) + SobelGy(x, y) * SobelGy(x, y)

\* m is sqrt(n) rounded to the nearest integer: m - 1/2 <= sqrt(n) < m + 1/2.
IsRoundedRoot(m, n) ==
    /\ 4 * n < (2 * m + 1) * (2 * m + 1)
    /\ m = 0 \/ (2 * m - 1) * (2 * m - 1) <= 4 * n

\* m is sqrt(n) truncated to an integer.
IsTruncatedRoot(m, n) == m * m <= n /\ n < (m + 1) * (m + 1)

InteriorPixels ==
    {c \in (1..(width - 2)) \X (1..(height - 2)) : TRUE}

\* C8 (as stated): on a valid image of at least 3x3 every interior entry of
\* sobelMagnitude is sqrt(Gx^2 + Gy^2) rounded to the nearest integer, and
\* fits in 16 bits.
C8_MagnitudeIsRoundedRoot ==
    (Done("sobelMagnitude") /\ ValidInput /\ width >= 3 /\ height >= 3) =>
        /\ ~panicked
        /\ \A c \in InteriorPixels :
              /\ IsRoundedRoot(VecGet(res, c[2] * width + c[1]), SqNorm(c[1], c[2]))
              /\ VecGet(res, c[2] * width + c[1]) <= 65535

\* C8 (amended): on a valid image of at least 3x3 every interior entry of
\* sobelMagnitude is sqrt(Gx^2 + Gy^2) truncated toward zero (the floor, not
\* the nearest integer), and fits in 16 bits.
C8_MagnitudeIsTruncatedRoot ==
    (Done("sobelMagnitude") /\ ValidInput /\ width >= 3 /\ height >= 3) =>
        /\ ~panicked
        /\ \A c \in InteriorPixels :
              /\ IsTruncatedRoot(VecGet(res, c[2] * width + c[1]), SqNorm(c[1], c[2]))
              /\ VecGet(res, c[2] * width + c[1]) <= 65535

\* An interior pixel whose root has a fractional part of a half or more.
C8_Witness ==
    /\ Done("sobelMagnitude")
    /\ ValidInput
    /\ ~panicked
    /\ \E c \in InteriorPixels :
          /\ IsTruncatedRoot(VecGet(res, c[2] * width + c[1]), SqNorm(c[1], c[2]))
          /\ ~IsRoundedRoot(VecGet(res, c[2] * width + c[1]), SqNorm(c[1], c[2]))

CatalogIds ==
    <<"page-bounds", "text-block", "title", "running-head", "folio", "ornament",
      "drop-cap", "footnote", "marginalia">>

HasCatalogOrder == Len(res) = 9 /\ \A i \in 1..9 : res[i].id = CatalogIds[i]

\* C9 (as stated): on valid input the catalog comes in the fixed order with
\* confidences page-bounds 0.6, text-block 0.55, title 0.55 and the other
\* six decreasing from 0.28 down to 0.18.
C9_ConfidencesAsStated ==
    (Done("detectLayoutElements") /\ ValidInput) =>
        /\ HasCatalogOrder
        /\ res[1].confidence = 60
        /\ res[2].confidence = 55
        /\ res[3].confidence = 55
        /\ res[4].confidence = 28
        /\ res[9].confidence = 18
        /\ \A i \in 4..8 : res[i].confidence >= res[i + 1].confidence

\* C9 (amended): on valid input the catalog comes in the fixed order with
\* static confidences page-bounds 0.6, text-block 0.55, title 0.28,
\* running-head 0.25, folio 0.22, ornament 0.20, drop-cap 0.18, footnote 0.20,
\* marginalia 0.18, whatever the pixels.
C9_StaticConfidences ==
    (Done("detectLayoutElements") /\ ValidInput) =>
        /\ HasCatalogOrder
        /\ [i \in 1..9 |-> res[i].confidence] = <<60, 55, 28, 25, 22, 20, 18, 20, 18>>

\* A valid image with both dark and light pixels.
C9_Witness ==
    /\ Done("detectLayoutElements")
    /\ ValidInput
    /\ \E i, j \in 1..(width * height) : data[i] < data[j]
    /\ HasCatalogOrder

\* The largest weight of a histogram and the lowest bucket holding weight m.
MaxWeight(hist) ==
    LET weights == {hist[b] : b \in 0..180}
    IN  CHOOSE m \in weights : \A o \in weights : o <= m

LowestBucketWith(hist, m) ==
    LET holders == {b \in 0..180 : hist[b] = m}
    IN  CHOOSE b \in holders : \A o \in holders : b <= o

\* The angle is the weighted average of (index - 90) over the buckets
\* best-3..best+3 clipped to [0, 180], or 0 when they weigh 0.
AngleIsWindowAverage ==
    LET lo == Max(res.best_bucket - 3, 0)
        hi == Min(res.best_bucket + 3, 180)
        weights == [i \in 1..(hi - lo + 1) |-> res.histogram[lo + i - 1]]
        moments == [i \in 1..(hi - lo + 1) |-> (lo + i - 1 - 90) * weights[i]]
        den == SeqSum(weights, 1)
    IN  IF den > 0 THEN res.angle = [num |-> SeqSum(moments, 1), den |-> den]
        ELSE res.angle = Zero

ConfidenceInUnitInterval ==
    0 <= res.confidence.num /\ res.confidence.num <= res.confidence.den

\* C10 (as stated): for every histogram, all-zero included, the best bucket
\* is the lowest bucket holding the maximum weight; the angle is the
\* weighted average of (index - 90) over best-3..best+3 clipped to [0, 180],
\* or 0 when that window weighs 0; confidence = bestBucketWeight /
\* (width * height * 4) and lies in [0, 1].
C10_FirstMaximumAndRatio ==
    (Done("estimateSkewAngle") /\ ValidInput) =>
        /\ ~panicked
        /\ res.best_bucket = LowestBucketWith(res.histogram, MaxWeight(res.histogram))
        /\ AngleIsWindowAverage
        /\ res.confidence.num * (40 * width * height) = res.best_val * res.confidence.den
        /\ ConfidenceInUnitInterval

\* C10 (amended): when some bucket has a positive weight the best bucket is
\* the lowest bucket holding the maximum weight, and when the histogram is
\* all zero it stays at the initial bucket 90 with weight 0; the angle is the
\* weighted average of (index - 90) over best-3..best+3 clipped to [0, 180],
\* or 0 when that window weighs 0; confidence is bestBucketWeight /
\* (width * height * 4) capped at 1, so it lies in [0, 1].
C10_FirstPositiveMaximumAndCappedRatio ==
    (Done("estimateSkewAngle") /\ ValidInput) =>
        /\ ~panicked
        /\ LET m == MaxWeight(res.histogram)
           IN  IF m > 0
               THEN res.best_bucket = LowestBucketWith(res.histogram, m) /\ res.best_val = m
               ELSE res.best_bucket = 90 /\ res.best_val = 0
        /\ AngleIsWindowAverage
        /\ IF res.best_val >= 40 * width * height
           THEN res.confidence.num = res.confidence.den
           ELSE res.confidence.num * (40 * width * height)
                  = res.best_val * res.confidence.den
        /\ ConfidenceInUnitInterval

\* Two buckets tie for a positive maximum and the lower one is reported.
C10_Witness ==
    /\ Done("estimateSkewAngle")
    /\ ValidInput
    /\ res.best_val > 0
    /\ res.best_val = MaxWeight(res.histogram)
    /\ \E b \in (res.best_bucket + 1)..180 : res.histogram[b] = res.best_val

\* The peak rows reported through peaks_y (row = peaks_y * (height - 1)).
ReportedPeaks == [i \in 1..Len(res.peaks_y) |-> res.peaks_y[i].num]

\* C11: on valid input the peak rows of baselineMetrics are strictly
\* increasing, lie in 1..height-2 and are never adjacent (consecutive peaks
\* differ by at least 2); hence textLineCount <= floor((height - 1) / 2),
\* every peaksY value lies strictly between 0 and 1, and spacingNorm is 0 or
\* at least 2 / (height - 1).
C11_PeaksSeparated ==
    (Done("baselineMetrics") /\ ValidInput) =>
        /\ ~panicked
        /\ Len(res.peaks_y) = res.text_line_count
        /\ \A i \in 1..Len(ReportedPeaks) :
              /\ 1 <= ReportedPeaks[i] /\ ReportedPeaks[i] <= height - 2
              /\ 0 < res.peaks_y[i].num /\ res.peaks_y[i].num < res.peaks_y[i].den
              /\ res.peaks_y[i].den = height - 1
        /\ \A i \in 1..(Len(ReportedPeaks) - 1) :
              ReportedPeaks[i + 1] - ReportedPeaks[i] >= 2
        /\ res.text_line_count <= (height - 1) \div 2
        /\ \/ res.spacing_norm.num = 0
           \/ res.spacing_norm.num * (height - 1) >= 2 * res.spacing_norm.den

\* As many peaks as the rows allow, at least two, with the smallest spacing.
C11_Witness ==
    /\ Done("baselineMetrics")
    /\ ValidInput
    /\ Len(res.peaks_y) >= 2
    /\ res.text_line_count = (height - 1) \div 2
    /\ res.spacing_norm.num * (height - 1) = 2 * res.spacing_norm.den

====
